---- MODULE Spec2Model ----
(***************************************************************************)
(* State-machine model of the feature-engagement Tracker                   *)
(* (components/feature_engagement_tracker/internal/                        *)
(*  feature_engagement_tracker_impl.cc).                                   *)
(*                                                                         *)
(* The Tracker's own methods are translated from that file.  The Model,    *)
(* the Configuration contents, the ConditionValidators and the             *)
(* TimeProvider are collaborators whose implementation is not part of the  *)
(* translated sources; they are modelled from their documented contract    *)
(* and are marked as such where they are defined.                          *)
(*                                                                         *)
(* Two further classes are modelled, each with a specification of its own: *)
(* CdmAdapterFactory (media/cdm/cdm_adapter_factory.cc) and                *)
(* SyncInternalsMessageHandler as exercised by its unit tests              *)
(* (chrome/browser/ui/webui/sync_internals_message_handler_unittest.cc).   *)
(***************************************************************************)
EXTENDS Integers, Sequences, FiniteSets, TLC

VARIABLES
  alive,                      \* the Tracker object exists (weak pointers valid)
  demo_mode,                  \* base::FeatureList::IsEnabled(kIPHDemoMode)
  configuration,              \* configuration_: feature -> FeatureConfig
  current_day,                \* time_provider_->GetCurrentDay()
  model_state,                \* model_: "loading" until the store has answered
  model_ready,                \* model_->IsReady()
  events,                     \* model_: event name -> sequence of (day, count)
  currently_showing,          \* condition_validator_: features being shown
  shown_features,             \* OnceConditionValidator: features ever shown
  initialization_finished_,   \* Tracker field
  on_initialized_callbacks_,  \* Tracker field: queued callbacks, in order
  task_queue,                 \* ThreadTaskRunnerHandle: posted tasks, in order
  next_callback,              \* identity of the next callback a client passes
  delivered,                  \* history: callback runs, in order
  last,                       \* history: the call made by the latest step
  n_true,                     \* history: true results of ShouldTriggerHelpUI
  n_trigger_inc,              \* history: trigger increments it caused
  ready_inc,                  \* history: increments requested while ready
  early_notified,             \* history: events notified before readiness
  undismissed,                \* history: shown and not dismissed since
  registered_early,           \* history: callbacks registered before the finish
  init_reports,               \* history: arguments of OnModelInitializationFinished
  dchecks,                    \* history: the DCHECKs that have failed
  widevine_cdm_available,     \* build: WIDEVINE_CDM_AVAILABLE is defined
  cdm_calls,                  \* history: the Create calls made, in order
  cdm_task_queue,             \* ThreadTaskRunnerHandle: posted tasks, in order
  cdm_created,                \* history: runs of cdm_created_cb, in order
  allocator_runs,             \* history: calls that ran allocator_creation_cb_
  adapter_creates,            \* history: calls passed on to CdmAdapter::Create
  handler_alive,              \* handler_: the message handler exists
  javascript_allowed,         \* WebUIMessageHandler::IsJavascriptAllowed()
  is_registered_,             \* handler field: sync service observer added
  is_registered_for_counters_,\* handler field: type debug info observer added
  sync_counts,                \* TestSyncService: its four call counters
  sync_messages               \* number of WebUI messages handled

featureEngagementVars ==
  << alive, demo_mode, configuration, current_day, model_state,
     model_ready, events, currently_showing, shown_features,
     initialization_finished_, on_initialized_callbacks_, task_queue,
     next_callback, delivered, last, n_true, n_trigger_inc, ready_inc,
     early_notified, undismissed, registered_early, init_reports,
     dchecks >>

cdmVars == << widevine_cdm_available, cdm_calls, cdm_task_queue, cdm_created,
             allocator_runs, adapter_creates >>

syncVars == << handler_alive, javascript_allowed, is_registered_,
              is_registered_for_counters_, sync_counts, sync_messages >>

vars == << featureEngagementVars, cdmVars, syncVars >>

trackerVars == << initialization_finished_, on_initialized_callbacks_ >>
modelVars == << model_state, model_ready, events >>
validatorVars == << currently_showing, shown_features >>
historyVars == << n_true, n_trigger_inc, ready_inc, early_notified,
                  undismissed >>

(***************************************************************************)
(* Bounds of the model.                                                    *)
(***************************************************************************)
MaxCallbacks == 2
MaxIncrements == 2
MaxDay == 1
MaxCreates == 3
MaxMessages == 5

Days == 0..MaxDay
Callbacks == 1..MaxCallbacks

(***************************************************************************)
(* Features and event names.                                               *)
(***************************************************************************)
Features == {"F1", "F2"}

\* feature->name + std::string("_trigger")
DemoTriggerName(feature) == feature \o "_trigger"

EventNames == {DemoTriggerName(f) : f \in Features} \cup {"x"}

\* Event names a client passes to NotifyEvent.
NotifiedEvents == {"x"}

(***************************************************************************)
(* Configuration.                                                          *)
(***************************************************************************)
AnyComparator == [type |-> "ANY", value |-> 0]

\* A default-constructed FeatureConfig: not valid, no trigger name.
InvalidConfig ==
  [valid |-> FALSE,
   trigger |-> [name |-> "", comparator |-> AnyComparator, window |-> 0],
   event_configs |-> {}]

\* Variant: the demo-mode factory marks every feature valid and leaves the
\* trigger name unset.
DemoConfiguration_NoTriggerName ==
  [f \in Features |->
     [valid |-> TRUE,
      trigger |-> [name |-> "", comparator |-> AnyComparator, window |-> 0],
      event_configs |-> {}]]

\* The configuration the demo-mode factory builds: every feature valid, the
\* trigger named after the feature, nothing else set.
DemoConfiguration ==
  [f \in Features |->
     [valid |-> TRUE,
      trigger |-> [name |-> DemoTriggerName(f), comparator |-> AnyComparator,
                   window |-> 0],
      event_configs |-> {}]]

\* A valid config without rules whose trigger event is `trigger_name`.
PlainConfig(trigger_name) ==
  [valid |-> TRUE,
   trigger |-> [name |-> trigger_name, comparator |-> AnyComparator,
                window |-> 0],
   event_configs |-> {}]

\* Configurations ParseFeatureConfigs may produce from the rule source.
\*  - F1 valid without rules, F2 never registered;
\*  - F1 valid without rules, F2 valid and requiring event "x" at least once
\*    within the last two days;
\*  - F1 registered with a malformed rule, hence not valid, F2 never
\*    registered.
ProductionConfigurations ==
  { [f \in {"F1"} |-> PlainConfig("F1_trigger")],
    [f \in Features |->
       IF f = "F1" THEN PlainConfig("F1_trigger")
       ELSE [valid |-> TRUE,
             trigger |-> [name |-> "F2_trigger", comparator |-> AnyComparator,
                          window |-> 0],
             event_configs |->
               {[name |-> "x",
                 comparator |-> [type |-> "GREATER_THAN_OR_EQUAL", value |-> 1],
                 window |-> 2]}]],
    [f \in {"F1"} |->
       [valid |-> FALSE,
        trigger |-> [name |-> "F1_trigger", comparator |-> AnyComparator,
                     window |-> 0],
        event_configs |-> {}]] }

\* Configuration::GetFeatureConfig
GetFeatureConfig(feature) ==
  IF feature \in DOMAIN configuration THEN configuration[feature]
  ELSE InvalidConfig

(***************************************************************************)
(* Model: event store.                                                     *)
(***************************************************************************)
RECURSIVE SumCounts(_)
SumCounts(buckets) ==
  IF buckets = << >> THEN 0
  ELSE Head(buckets).count + SumCounts(Tail(buckets))

\* Count stored for (name, day); 0 when there is no such bucket.
RECURSIVE BucketCount(_, _)
BucketCount(buckets, day) ==
  IF buckets = << >> THEN 0
  ELSE IF Head(buckets).day = day THEN Head(buckets).count
  ELSE BucketCount(Tail(buckets), day)

\* Count of the buckets of the last `window` days up to and including `day`.
RECURSIVE WindowCount(_, _, _)
WindowCount(buckets, day, window) ==
  IF buckets = << >> THEN 0
  ELSE (IF Head(buckets).day <= day /\ Head(buckets).day > day - window
        THEN Head(buckets).count ELSE 0)
       + WindowCount(Tail(buckets), day, window)

\* Increment the bucket of `day`, creating it in day order if absent.
RECURSIVE IncrementBucket(_, _)
IncrementBucket(buckets, day) ==
  IF buckets = << >> THEN << [day |-> day, count |-> 1] >>
  ELSE IF Head(buckets).day = day
    THEN << [day |-> day, count |-> Head(buckets).count + 1] >> \o Tail(buckets)
  ELSE IF Head(buckets).day > day
    THEN << [day |-> day, count |-> 1] >> \o buckets
  ELSE << Head(buckets) >> \o IncrementBucket(Tail(buckets), day)

TotalIncrements ==
  LET RECURSIVE Sum(_)
      Sum(S) == IF S = {} THEN 0
                ELSE LET n == CHOOSE n \in S : TRUE
                     IN SumCounts(events[n]) + Sum(S \ {n})
  IN Sum(EventNames)

\* Model::IsReady
Model_IsReady == model_ready

\* Model::IncrementEvent: the store after the call.  Before readiness the
\* call is a no-op with no error surfaced.
Model_IncrementEvent(name, day) ==
  IF Model_IsReady /\ name \in EventNames
  THEN [events EXCEPT ![name] = IncrementBucket(@, day)]
  ELSE events

(***************************************************************************)
(* AvailabilityModel.  Both factories install NeverAvailabilityModel, which *)
(* never knows an availability day.                                        *)
(***************************************************************************)
GetAvailabilityDays(feature) == "absent"

(***************************************************************************)
(* ConditionValidator.                                                     *)
(***************************************************************************)
Compare(comparator, count) ==
  CASE comparator.type = "ANY" -> TRUE
    [] comparator.type = "LESS_THAN" -> count < comparator.value
    [] comparator.type = "GREATER_THAN_OR_EQUAL" -> count >= comparator.value
    [] OTHER -> FALSE

EventConfigMet(event_config) ==
  event_config.name \in EventNames /\
  Compare(event_config.comparator,
          WindowCount(events[event_config.name], current_day,
                      event_config.window))

\* The rules shared by both validators: the failed rules of `feature`.  An
\* invalid config fails at once; otherwise every rule is evaluated.  The
\* Model is consulted for its readiness and for its counts.
FailedRules(feature, config) ==
  IF ~config.valid THEN {"INVALID_CONFIG"}
  ELSE (IF Model_IsReady THEN {} ELSE {"EVENT_MODEL_NOT_READY"})
       \cup (IF Compare(config.trigger.comparator,
                        IF config.trigger.name \in EventNames
                        THEN WindowCount(events[config.trigger.name],
                                         current_day, config.trigger.window)
                        ELSE 0)
             THEN {} ELSE {"TRIGGER"})
       \cup (IF \A ec \in config.event_configs : EventConfigMet(ec)
             THEN {} ELSE {"EVENT_CONFIGS"})
       \cup (IF GetAvailabilityDays(feature) = "absent"
             THEN {} ELSE {"AVAILABILITY"})
       \cup (IF feature \in currently_showing
             THEN {"CURRENTLY_SHOWING"} ELSE {})

\* FeatureConfigConditionValidator::MeetsConditions
FeatureConfigConditionValidator_MeetsConditions(feature, config) ==
  FailedRules(feature, config)

\* OnceConditionValidator::MeetsConditions: additionally a feature that has
\* triggered once never meets its conditions again.
OnceConditionValidator_MeetsConditions(feature, config) ==
  FailedRules(feature, config)
  \cup (IF feature \in shown_features THEN {"ALREADY_TRIGGERED"} ELSE {})

\* ConditionValidator::NotifyIsShowing: the validator's state after the call.
OnceConditionValidator_NotifyIsShowing(feature) ==
  [currently_showing |-> currently_showing \cup {feature},
   shown_features |-> shown_features \cup {feature}]

FeatureConfigConditionValidator_NotifyIsShowing(feature) ==
  [currently_showing |-> currently_showing \cup {feature},
   shown_features |-> shown_features]

\* ConditionValidator::NotifyDismissed
NotifyDismissed(feature) == currently_showing \ {feature}

(***************************************************************************)
(* The factory: which collaborators the Tracker is built with.             *)
(***************************************************************************)
\* Variant: the demo-mode factory installs the ordinary validator.
MeetsConditions_NeverOnce(feature, config) ==
  FeatureConfigConditionValidator_MeetsConditions(feature, config)

\* condition_validator_->MeetsConditions(...): OnceConditionValidator in
\* demo mode, FeatureConfigConditionValidator otherwise.
MeetsConditions(feature, config) ==
  IF demo_mode THEN OnceConditionValidator_MeetsConditions(feature, config)
  ELSE FeatureConfigConditionValidator_MeetsConditions(feature, config)

\* condition_validator_->NotifyIsShowing(feature)
NotifyIsShowing(feature) ==
  IF demo_mode THEN OnceConditionValidator_NotifyIsShowing(feature)
  ELSE FeatureConfigConditionValidator_NotifyIsShowing(feature)

(***************************************************************************)
(* History records.                                                        *)
(***************************************************************************)
Call(op, arg, cb, ret) == [op |-> op, arg |-> arg, cb |-> cb, ret |-> ret]

Bump(counter, key) == [counter EXCEPT ![key] = @ + 1]

BumpDay(counter, name, day) ==
  IF name \in EventNames THEN [counter EXCEPT ![name][day] = @ + 1]
  ELSE counter

(***************************************************************************)
(* FeatureEngagementTrackerImpl.                                           *)
(***************************************************************************)
\* Variant: the event is written to the store without going through the
\* Model's readiness handling.
NotifyEvent_RawStore(event) ==
  /\ events' = [events EXCEPT ![event] = IncrementBucket(@, current_day)]
  /\ UNCHANGED << model_state, model_ready >>

\* Variant: the event is recorded for the day of construction instead of
\* the current day.
NotifyEvent_StaleDay(event) ==
  /\ events' = Model_IncrementEvent(event, 0)
  /\ UNCHANGED << model_state, model_ready >>

\* NotifyEvent: forwards to the Model unconditionally.
NotifyEvent(event) ==
  /\ events' = Model_IncrementEvent(event, current_day)
  /\ UNCHANGED << model_state, model_ready >>

\* DCHECK_NE("", feature_config.trigger.name): the assertion that fails.
TriggerNameDcheck(feature_config) ==
  IF feature_config.trigger.name # "" THEN {}
  ELSE {"DCHECK_NE(\"\", feature_config.trigger.name)"}

\* Variant: the result is the Model's readiness, whatever the conditions.
ShouldTriggerResult_ReadyOnly(feature) == Model_IsReady

\* Variant: the result is taken from the config alone.
ShouldTriggerResult_ConfigOnly(feature) == GetFeatureConfig(feature).valid

\* The result ShouldTriggerHelpUI computes:
\* MeetsConditions(feature, GetFeatureConfig(feature), ...).NoErrors()
ShouldTriggerResult(feature) ==
  MeetsConditions(feature, GetFeatureConfig(feature)) = {}

\* Variant: NotifyIsShowing is called whatever the result.
ShouldTriggerHelpUI_AlwaysShowing(feature) ==
  LET result == ShouldTriggerResult(feature)
      feature_config == GetFeatureConfig(feature)
  IN /\ currently_showing' = NotifyIsShowing(feature).currently_showing
     /\ shown_features' = NotifyIsShowing(feature).shown_features
     /\ IF result
        THEN /\ dchecks' = dchecks \cup TriggerNameDcheck(feature_config)
             /\ events' = Model_IncrementEvent(feature_config.trigger.name,
                                               current_day)
        ELSE UNCHANGED << events, dchecks >>
     /\ UNCHANGED << model_state, model_ready >>

\* Variant: on success the trigger event is not incremented.
ShouldTriggerHelpUI_NoIncrement(feature) ==
  LET result == ShouldTriggerResult(feature)
  IN /\ IF result
        THEN /\ currently_showing' =
                  NotifyIsShowing(feature).currently_showing
             /\ shown_features' = NotifyIsShowing(feature).shown_features
        ELSE UNCHANGED << currently_showing, shown_features >>
     /\ UNCHANGED << model_state, model_ready, events, dchecks >>

\* ShouldTriggerHelpUI: on success marks the feature as showing and
\* increments its configured trigger event for the current day.
ShouldTriggerHelpUI(feature) ==
  LET result == ShouldTriggerResult(feature)
      feature_config == GetFeatureConfig(feature)
  IN /\ IF result
        THEN /\ currently_showing' =
                  NotifyIsShowing(feature).currently_showing
             /\ shown_features' = NotifyIsShowing(feature).shown_features
             /\ dchecks' = dchecks \cup TriggerNameDcheck(feature_config)
             /\ events' = Model_IncrementEvent(feature_config.trigger.name,
                                               current_day)
        ELSE UNCHANGED << currently_showing, shown_features, events,
                          dchecks >>
     /\ UNCHANGED << model_state, model_ready >>

\* Variant: the dismissal is not forwarded to the validator.
Dismissed_NotForwarded(feature) ==
  UNCHANGED << currently_showing, shown_features >>

\* Variant: the dismissal also forgets that the feature was ever shown.
Dismissed_ForgetsShown(feature) ==
  /\ currently_showing' = NotifyDismissed(feature)
  /\ shown_features' = shown_features \ {feature}

\* Dismissed
Dismissed(feature) ==
  /\ currently_showing' = NotifyDismissed(feature)
  /\ UNCHANGED shown_features

\* Variant: reports that initialization has finished, not that it succeeded.
IsInitialized_Finished == initialization_finished_

\* IsInitialized
IsInitialized == Model_IsReady

\* Variant: after the finish the callback is run inline instead of posted.
AddOnInitializedCallback_Inline(callback) ==
  IF initialization_finished_
  THEN /\ delivered' =
            Append(delivered, [cb |-> callback, success |-> Model_IsReady])
       /\ UNCHANGED << initialization_finished_, on_initialized_callbacks_,
                       task_queue, init_reports >>
  ELSE /\ on_initialized_callbacks_' =
            Append(on_initialized_callbacks_, callback)
       /\ UNCHANGED << initialization_finished_, task_queue, delivered,
                       init_reports >>

\* Variant: the callback is queued whether or not initialization finished.
AddOnInitializedCallback_AlwaysQueue(callback) ==
  /\ on_initialized_callbacks_' = Append(on_initialized_callbacks_, callback)
  /\ UNCHANGED << initialization_finished_, task_queue, delivered,
                  init_reports >>

\* Variant: after the finish the callback is posted with the finished flag
\* instead of the Model's readiness.
AddOnInitializedCallback_ReportsFinished(callback) ==
  IF initialization_finished_
  THEN /\ task_queue' =
            Append(task_queue,
                   [cb |-> callback, success |-> initialization_finished_])
       /\ UNCHANGED << initialization_finished_, on_initialized_callbacks_,
                       delivered, init_reports >>
  ELSE /\ on_initialized_callbacks_' =
            Append(on_initialized_callbacks_, callback)
       /\ UNCHANGED << initialization_finished_, task_queue, delivered,
                       init_reports >>

\* Variant: after the finish the callback is posted ahead of the tasks
\* that are waiting.
AddOnInitializedCallback_PostFront(callback) ==
  IF initialization_finished_
  THEN /\ task_queue' =
            << [cb |-> callback, success |-> Model_IsReady] >> \o task_queue
       /\ UNCHANGED << initialization_finished_, on_initialized_callbacks_,
                       delivered, init_reports >>
  ELSE /\ on_initialized_callbacks_' =
            Append(on_initialized_callbacks_, callback)
       /\ UNCHANGED << initialization_finished_, task_queue, delivered,
                       init_reports >>

\* AddOnInitializedCallback: posts the callback with the Model's readiness
\* once initialization has finished, queues it before.
AddOnInitializedCallback(callback) ==
  IF initialization_finished_
  THEN /\ task_queue' =
            Append(task_queue, [cb |-> callback, success |-> Model_IsReady])
       /\ UNCHANGED << initialization_finished_, on_initialized_callbacks_,
                       delivered, init_reports >>
  ELSE /\ on_initialized_callbacks_' =
            Append(on_initialized_callbacks_, callback)
       /\ UNCHANGED << initialization_finished_, task_queue, delivered,
                       init_reports >>

\* DCHECK_EQ(success, model_->IsReady()), evaluated when the Model runs
\* on_loaded: the assertion that fails.
ReadyDcheck(success) ==
  IF success = Model_IsReady' THEN {}
  ELSE {"DCHECK_EQ(success, model_->IsReady())"}

\* Variant: the queue is not cleared after the callbacks are posted.
OnModelInitializationFinished_NoClear(success) ==
  /\ initialization_finished_' = TRUE
  /\ task_queue' =
       task_queue \o
       [i \in 1..Len(on_initialized_callbacks_) |->
          [cb |-> on_initialized_callbacks_[i], success |-> success]]
  /\ init_reports' = Append(init_reports, success)
  /\ dchecks' = dchecks \cup ReadyDcheck(success)
  /\ UNCHANGED << on_initialized_callbacks_, delivered >>

\* Variant: the queued callbacks are posted last to first.
OnModelInitializationFinished_Reversed(success) ==
  /\ initialization_finished_' = TRUE
  /\ task_queue' =
       task_queue \o
       [i \in 1..Len(on_initialized_callbacks_) |->
          [cb |-> on_initialized_callbacks_[Len(on_initialized_callbacks_) + 1
                                           - i],
           success |-> success]]
  /\ on_initialized_callbacks_' = << >>
  /\ init_reports' = Append(init_reports, success)
  /\ dchecks' = dchecks \cup ReadyDcheck(success)
  /\ UNCHANGED delivered

\* Variant: every queued callback is posted twice.
OnModelInitializationFinished_PostTwice(success) ==
  /\ initialization_finished_' = TRUE
  /\ task_queue' =
       task_queue \o
       [i \in 1..(2 * Len(on_initialized_callbacks_)) |->
          [cb |-> on_initialized_callbacks_[(i + 1) \div 2],
           success |-> success]]
  /\ on_initialized_callbacks_' = << >>
  /\ init_reports' = Append(init_reports, success)
  /\ dchecks' = dchecks \cup ReadyDcheck(success)
  /\ UNCHANGED delivered

\* Variant: the finish is recorded only when the Model loaded successfully.
OnModelInitializationFinished_FlagOnSuccess(success) ==
  /\ initialization_finished_' = success
  /\ task_queue' =
       task_queue \o
       [i \in 1..Len(on_initialized_callbacks_) |->
          [cb |-> on_initialized_callbacks_[i], success |-> success]]
  /\ on_initialized_callbacks_' = << >>
  /\ init_reports' = Append(init_reports, success)
  /\ dchecks' = dchecks \cup ReadyDcheck(success)
  /\ UNCHANGED delivered

\* Variant: the queue is cleared only when the Model loaded successfully.
OnModelInitializationFinished_ClearOnSuccess(success) ==
  /\ initialization_finished_' = TRUE
  /\ task_queue' =
       task_queue \o
       [i \in 1..Len(on_initialized_callbacks_) |->
          [cb |-> on_initialized_callbacks_[i], success |-> success]]
  /\ on_initialized_callbacks_' =
       IF success THEN << >> ELSE on_initialized_callbacks_
  /\ init_reports' = Append(init_reports, success)
  /\ dchecks' = dchecks \cup ReadyDcheck(success)
  /\ UNCHANGED delivered

\* OnModelInitializationFinished: posts every queued callback with
\* `success`, in queue order, and clears the queue.
OnModelInitializationFinished(success) ==
  /\ initialization_finished_' = TRUE
  /\ task_queue' =
       task_queue \o
       [i \in 1..Len(on_initialized_callbacks_) |->
          [cb |-> on_initialized_callbacks_[i], success |-> success]]
  /\ on_initialized_callbacks_' = << >>
  /\ init_reports' = Append(init_reports, success)
  /\ dchecks' = dchecks \cup ReadyDcheck(success)
  /\ UNCHANGED delivered

\* Variant: the callback is bound to the raw object instead of a weak
\* pointer.
OnLoadedCallback_Unretained(success) == OnModelInitializationFinished(success)

\* The callback the constructor hands to Model::Initialize: bound to a weak
\* pointer, it runs the method only while the Tracker exists.
OnLoadedCallback(success) ==
  IF alive THEN OnModelInitializationFinished(success)
  ELSE UNCHANGED << initialization_finished_, on_initialized_callbacks_,
                    task_queue, delivered, init_reports, dchecks >>

(***************************************************************************)
(* Steps.                                                                  *)
(***************************************************************************)
\* A client calls NotifyEvent.
DoNotifyEvent ==
  \E event \in NotifiedEvents :
    /\ alive
    /\ TotalIncrements < MaxIncrements
    /\ NotifyEvent(event)
    /\ ready_inc' = IF IsInitialized THEN BumpDay(ready_inc, event, current_day)
                    ELSE ready_inc
    /\ early_notified' = IF IsInitialized THEN early_notified
                         ELSE early_notified \cup {event}
    /\ last' = Call("NotifyEvent", event, 0, FALSE)
    /\ UNCHANGED << alive, demo_mode, configuration, current_day,
                    validatorVars, trackerVars, task_queue, next_callback,
                    delivered, n_true, n_trigger_inc, undismissed,
                    registered_early, init_reports, dchecks >>
    /\ UNCHANGED << cdmVars, syncVars >>

\* A client calls ShouldTriggerHelpUI.
DoShouldTriggerHelpUI ==
  \E feature \in Features :
    /\ alive
    /\ TotalIncrements < MaxIncrements
    /\ ShouldTriggerHelpUI(feature)
    /\ LET returned == ShouldTriggerResult(feature)
       IN /\ last' = Call("ShouldTriggerHelpUI", feature, 0, returned)
          /\ n_true' = IF returned THEN Bump(n_true, feature) ELSE n_true
          /\ undismissed' = IF returned THEN undismissed \cup {feature}
                            ELSE undismissed
    /\ n_trigger_inc' = IF events' # events THEN Bump(n_trigger_inc, feature)
                        ELSE n_trigger_inc
    /\ ready_inc' =
         IF IsInitialized /\ ShouldTriggerResult(feature)
         THEN BumpDay(ready_inc, GetFeatureConfig(feature).trigger.name,
                      current_day)
         ELSE ready_inc
    /\ UNCHANGED << alive, demo_mode, configuration, current_day,
                    trackerVars, task_queue, next_callback, delivered,
                    early_notified, registered_early, init_reports >>
    /\ UNCHANGED << cdmVars, syncVars >>

\* A client calls Dismissed.
DoDismissed ==
  \E feature \in Features :
    /\ alive
    /\ Dismissed(feature)
    /\ undismissed' = undismissed \ {feature}
    /\ last' = Call("Dismissed", feature, 0, FALSE)
    /\ UNCHANGED << alive, demo_mode, configuration, current_day, modelVars,
                    trackerVars, task_queue, next_callback, delivered,
                    n_true, n_trigger_inc, ready_inc, early_notified,
                    registered_early, init_reports, dchecks >>
    /\ UNCHANGED << cdmVars, syncVars >>

\* A client registers its next callback.
DoAddOnInitializedCallback ==
  /\ alive
  /\ next_callback <= MaxCallbacks
  /\ AddOnInitializedCallback(next_callback)
  /\ next_callback' = next_callback + 1
  /\ registered_early' = IF initialization_finished_ THEN registered_early
                         ELSE registered_early \cup {next_callback}
  /\ last' = Call("AddOnInitializedCallback", "", next_callback, FALSE)
  /\ UNCHANGED << alive, demo_mode, configuration, current_day, modelVars,
                  validatorVars, historyVars, dchecks >>
  /\ UNCHANGED << cdmVars, syncVars >>

\* The store answers the load Model::Initialize began; the Model becomes
\* ready on success and runs on_loaded.
ModelInitialized ==
  \E success \in BOOLEAN :
    /\ model_state = "loading"
    /\ model_state' = "loaded"
    /\ model_ready' = IF alive THEN success ELSE model_ready
    /\ OnLoadedCallback(success)
    /\ last' = Call("on_loaded", "", 0, success)
    /\ UNCHANGED << alive, demo_mode, configuration, current_day, events,
                    validatorVars, next_callback, historyVars,
                    registered_early >>
    /\ UNCHANGED << cdmVars, syncVars >>

\* The Model breaks its contract and runs on_loaded a second time, with any
\* value; its readiness afterwards is what it was or what it now reports.
ModelInitializedAgain ==
  \E success \in BOOLEAN :
    \E ready \in {model_ready, success} :
      /\ model_state = "loaded"
      /\ model_state' = "loaded twice"
      /\ model_ready' = IF alive THEN ready ELSE model_ready
      /\ OnLoadedCallback(success)
      /\ last' = Call("on_loaded", "", 0, success)
      /\ UNCHANGED << alive, demo_mode, configuration, current_day, events,
                      validatorVars, next_callback, historyVars,
                      registered_early >>
      /\ UNCHANGED << cdmVars, syncVars >>

\* The task runner runs the task at the head of its queue.
RunTask ==
  /\ task_queue # << >>
  /\ delivered' = Append(delivered, Head(task_queue))
  /\ task_queue' = Tail(task_queue)
  /\ last' = Call("RunTask", "", Head(task_queue).cb, Head(task_queue).success)
  /\ UNCHANGED << alive, demo_mode, configuration, current_day, modelVars,
                  validatorVars, trackerVars, next_callback, historyVars,
                  registered_early, init_reports, dchecks >>
  /\ UNCHANGED << cdmVars, syncVars >>

\* The Tracker is destroyed; its weak pointers are invalidated.
Destroy ==
  /\ alive
  /\ alive' = FALSE
  /\ last' = Call("Destroy", "", 0, FALSE)
  /\ UNCHANGED << demo_mode, configuration, current_day, modelVars,
                  validatorVars, trackerVars, task_queue, next_callback,
                  delivered, historyVars, registered_early, init_reports,
                  dchecks >>
  /\ UNCHANGED << cdmVars, syncVars >>

\* The day changes.
AdvanceDay ==
  /\ current_day < MaxDay
  /\ current_day' = current_day + 1
  /\ last' = Call("AdvanceDay", "", 0, FALSE)
  /\ UNCHANGED << alive, demo_mode, configuration, modelVars, validatorVars,
                  trackerVars, task_queue, next_callback, delivered,
                  historyVars, registered_early, init_reports, dchecks >>
  /\ UNCHANGED << cdmVars, syncVars >>

\* FeatureEngagementTracker::Create and the constructor: the collaborators
\* are chosen by the demo-mode flag, nothing has been recorded, and
\* Model::Initialize has been called.
TrackerInit ==
  /\ alive = TRUE
  /\ demo_mode \in BOOLEAN
  /\ configuration \in (IF demo_mode THEN {DemoConfiguration}
                        ELSE ProductionConfigurations)
  /\ current_day = 0
  /\ model_state = "loading"
  /\ model_ready = FALSE
  /\ events = [n \in EventNames |-> << >>]
  /\ currently_showing = {}
  /\ shown_features = {}
  /\ initialization_finished_ = FALSE
  /\ on_initialized_callbacks_ = << >>
  /\ task_queue = << >>
  /\ next_callback = 1
  /\ delivered = << >>
  /\ last = Call("Create", "", 0, FALSE)
  /\ n_true = [f \in Features |-> 0]
  /\ n_trigger_inc = [f \in Features |-> 0]
  /\ ready_inc = [n \in EventNames |-> [d \in Days |-> 0]]
  /\ early_notified = {}
  /\ undismissed = {}
  /\ registered_early = {}
  /\ init_reports = << >>
  /\ dchecks = {}

(***************************************************************************)
(* CdmAdapterFactory.                                                      *)
(***************************************************************************)
kWidevineKeySystem == "com.widevine.alpha"

\* Key systems a caller may ask for.
KeySystems == {kWidevineKeySystem, "org.w3.clearkey"}

\* What allocator_creation_cb_.Run() may return.
AllocatorResults == {"allocator", "nullptr"}

\* cdm_path as Create computes it: the Widevine library path when the build
\* has Widevine and the key system is Widevine, the empty path otherwise.
CdmPath(key_system) ==
  IF widevine_cdm_available /\ key_system = kWidevineKeySystem
  THEN "WidevineCdm/libwidevinecdm.so"
  ELSE ""

\* base::Bind(cdm_created_cb, nullptr, error_message) of call `call`.
CdmCreatedTask(call, error_message) ==
  [call |-> call, cdm |-> "nullptr", error_message |-> error_message]

\* Variant: the return after the invalid-origin report is missing.
CdmAdapterFactory_Create_NoReturn(call, key_system, origin_valid, allocator) ==
  LET cdm_path == CdmPath(key_system)
      reported == IF origin_valid THEN << >>
                  ELSE << CdmCreatedTask(call, "Invalid origin.") >>
  IN IF cdm_path = ""
     THEN /\ cdm_task_queue' =
               cdm_task_queue \o reported \o
               << CdmCreatedTask(call, "Unsupported key system.") >>
          /\ UNCHANGED << allocator_runs, adapter_creates >>
     ELSE IF allocator = "nullptr"
     THEN /\ allocator_runs' = Append(allocator_runs, call)
          /\ cdm_task_queue' =
               cdm_task_queue \o reported \o
               << CdmCreatedTask(call, "CDM allocator creation failed.") >>
          /\ UNCHANGED adapter_creates
     ELSE /\ allocator_runs' = Append(allocator_runs, call)
          /\ adapter_creates' = Append(adapter_creates, call)
          /\ cdm_task_queue' = cdm_task_queue \o reported

\* CdmAdapterFactory::Create for the call numbered `call`; `allocator` is
\* what allocator_creation_cb_ returns if it is run.
CdmAdapterFactory_Create(call, key_system, origin_valid, allocator) ==
  LET cdm_path == CdmPath(key_system)
  IN IF ~origin_valid
     THEN /\ cdm_task_queue' =
               Append(cdm_task_queue, CdmCreatedTask(call, "Invalid origin."))
          /\ UNCHANGED << allocator_runs, adapter_creates >>
     ELSE IF cdm_path = ""
     THEN /\ cdm_task_queue' =
               Append(cdm_task_queue,
                      CdmCreatedTask(call, "Unsupported key system."))
          /\ UNCHANGED << allocator_runs, adapter_creates >>
     ELSE IF allocator = "nullptr"
     THEN /\ allocator_runs' = Append(allocator_runs, call)
          /\ cdm_task_queue' =
               Append(cdm_task_queue,
                      CdmCreatedTask(call, "CDM allocator creation failed."))
          /\ UNCHANGED adapter_creates
     ELSE /\ allocator_runs' = Append(allocator_runs, call)
          /\ adapter_creates' = Append(adapter_creates, call)
          /\ UNCHANGED cdm_task_queue

\* A client calls Create.  The call is recorded with its inputs; the
\* allocator's answer is recorded only where Create asks for it.
DoCdmCreate ==
  \E key_system \in KeySystems, origin_valid \in BOOLEAN,
     allocator \in AllocatorResults :
    LET call == Len(cdm_calls) + 1
    IN /\ call <= MaxCreates
       /\ CdmAdapterFactory_Create(call, key_system, origin_valid, allocator)
       /\ cdm_calls' =
            Append(cdm_calls,
                   [key_system |-> key_system,
                    origin_valid |-> origin_valid,
                    allocator |-> IF call \in {allocator_runs'[i] :
                                                 i \in 1..Len(allocator_runs')}
                                  THEN allocator ELSE "not run"])
       /\ UNCHANGED << widevine_cdm_available, cdm_created >>
       /\ UNCHANGED << featureEngagementVars, syncVars >>

\* The task runner runs the task at the head of its queue: cdm_created_cb
\* is called with the bound arguments.
RunCdmTask ==
  /\ cdm_task_queue # << >>
  /\ cdm_created' = Append(cdm_created, Head(cdm_task_queue))
  /\ cdm_task_queue' = Tail(cdm_task_queue)
  /\ UNCHANGED << widevine_cdm_available, cdm_calls, allocator_runs,
                  adapter_creates >>
  /\ UNCHANGED << featureEngagementVars, syncVars >>

\* The factory after construction, in a build with or without Widevine.
CdmInit ==
  /\ widevine_cdm_available \in BOOLEAN
  /\ cdm_calls = << >>
  /\ cdm_task_queue = << >>
  /\ cdm_created = << >>
  /\ allocator_runs = << >>
  /\ adapter_creates = << >>

(***************************************************************************)
(* SyncInternalsMessageHandler and the TestSyncService of its unit tests.  *)
(* The handler's implementation is not part of the translated sources; it  *)
(* is modelled as the smallest handler that produces the counts the tests  *)
(* expect.                                                                 *)
(***************************************************************************)
\* TestSyncService: each override counts its calls.
AddObserver(counts) ==
  [counts EXCEPT !.add_observer_count_ = @ + 1]
RemoveObserver(counts) ==
  [counts EXCEPT !.remove_observer_count_ = @ + 1]
AddTypeDebugInfoObserver(counts) ==
  [counts EXCEPT !.add_type_debug_info_observer_count_ = @ + 1]
RemoveTypeDebugInfoObserver(counts) ==
  [counts EXCEPT !.remove_type_debug_info_observer_count_ = @ + 1]

\* HandleRegisterForEvents: allows JavaScript and adds the handler as
\* observer unless it is registered already.
HandleRegisterForEvents ==
  /\ javascript_allowed' = TRUE
  /\ is_registered_' = TRUE
  /\ sync_counts' = IF is_registered_ THEN sync_counts
                    ELSE AddObserver(sync_counts)
  /\ UNCHANGED is_registered_for_counters_

\* Variant: a repeated registration adds the observer again without
\* removing the previous one.
HandleRegisterForPerTypeCounters_NoRemove ==
  /\ javascript_allowed' = TRUE
  /\ is_registered_for_counters_' = TRUE
  /\ sync_counts' = AddTypeDebugInfoObserver(sync_counts)
  /\ UNCHANGED is_registered_

\* HandleRegisterForPerTypeCounters: allows JavaScript and adds the handler
\* as type debug info observer; when it is registered already it is removed
\* first and added again.
HandleRegisterForPerTypeCounters ==
  /\ javascript_allowed' = TRUE
  /\ is_registered_for_counters_' = TRUE
  /\ sync_counts' =
       IF is_registered_for_counters_
       THEN AddTypeDebugInfoObserver(RemoveTypeDebugInfoObserver(sync_counts))
       ELSE AddTypeDebugInfoObserver(sync_counts)
  /\ UNCHANGED is_registered_

\* OnJavascriptDisallowed: removes the registrations that exist.
OnJavascriptDisallowed ==
  LET counts == IF is_registered_ THEN RemoveObserver(sync_counts)
                ELSE sync_counts
  IN /\ sync_counts' = IF is_registered_for_counters_
                       THEN RemoveTypeDebugInfoObserver(counts)
                       ELSE counts
     /\ is_registered_' = FALSE
     /\ is_registered_for_counters_' = FALSE

\* WebUIMessageHandler::DisallowJavascript: notifies the handler once per
\* allowed period.
DisallowJavascript ==
  IF javascript_allowed
  THEN /\ javascript_allowed' = FALSE
       /\ OnJavascriptDisallowed
  ELSE UNCHANGED << javascript_allowed, is_registered_,
                    is_registered_for_counters_, sync_counts >>

\* The WebUI page sends registerForEvents.
DoHandleRegisterForEvents ==
  /\ handler_alive
  /\ sync_messages < MaxMessages
  /\ HandleRegisterForEvents
  /\ sync_messages' = sync_messages + 1
  /\ UNCHANGED handler_alive
  /\ UNCHANGED << featureEngagementVars, cdmVars >>

\* The WebUI page sends registerForPerTypeCounters.
DoHandleRegisterForPerTypeCounters ==
  /\ handler_alive
  /\ sync_messages < MaxMessages
  /\ HandleRegisterForPerTypeCounters
  /\ sync_messages' = sync_messages + 1
  /\ UNCHANGED handler_alive
  /\ UNCHANGED << featureEngagementVars, cdmVars >>

\* JavaScript is disallowed (the page navigates away or reloads).
DoDisallowJavascript ==
  /\ handler_alive
  /\ DisallowJavascript
  /\ UNCHANGED << handler_alive, sync_messages >>
  /\ UNCHANGED << featureEngagementVars, cdmVars >>

\* ResetHandler: the handler is destroyed; its destructor disallows
\* JavaScript if it is allowed.
ResetHandler ==
  /\ handler_alive
  /\ handler_alive' = FALSE
  /\ DisallowJavascript
  /\ UNCHANGED sync_messages
  /\ UNCHANGED << featureEngagementVars, cdmVars >>

\* The test fixture after construction.
SyncInit ==
  /\ handler_alive = TRUE
  /\ javascript_allowed = FALSE
  /\ is_registered_ = FALSE
  /\ is_registered_for_counters_ = FALSE
  /\ sync_counts = [add_observer_count_ |-> 0,
                    remove_observer_count_ |-> 0,
                    add_type_debug_info_observer_count_ |-> 0,
                    remove_type_debug_info_observer_count_ |-> 0]
  /\ sync_messages = 0

(***************************************************************************)
(* Specifications.                                                         *)
(***************************************************************************)
\* The Tracker; the two other classes are at rest.
Init ==
  /\ TrackerInit
  /\ CdmInit /\ widevine_cdm_available
  /\ SyncInit

Next ==
  \/ DoNotifyEvent
  \/ DoShouldTriggerHelpUI
  \/ DoDismissed
  \/ DoAddOnInitializedCallback
  \/ ModelInitialized
  \/ RunTask
  \/ Destroy
  \/ AdvanceDay

Spec == Init /\ [][Next]_vars

\* The task runner keeps running posted tasks.
FairSpec == Spec /\ WF_vars(RunTask)

\* The Tracker with a Model that may complete twice.
NextDup ==
  \/ Next
  \/ ModelInitializedAgain

SpecDup == Init /\ [][NextDup]_vars

\* The CdmAdapterFactory alone; the Tracker is in demo mode and at rest.
InitCdm ==
  /\ TrackerInit /\ demo_mode
  /\ CdmInit
  /\ SyncInit

NextCdm ==
  \/ DoCdmCreate
  \/ RunCdmTask

SpecCdm == InitCdm /\ [][NextCdm]_vars

\* The SyncInternalsMessageHandler alone.
InitSync ==
  /\ TrackerInit /\ demo_mode
  /\ CdmInit /\ widevine_cdm_available
  /\ SyncInit

NextSync ==
  \/ DoHandleRegisterForEvents
  \/ DoHandleRegisterForPerTypeCounters
  \/ DoDisallowJavascript
  \/ ResetHandler

SpecSync == InitSync /\ [][NextSync]_vars

(***************************************************************************)
(* Vocabulary of the properties.                                           *)
(***************************************************************************)
\* The step just taken was a call of `op`.
Called(op) == last'.op = op

\* How often callback `cb` has run, and how often it is posted and waiting.
Ran(cb) == Cardinality({i \in 1..Len(delivered) : delivered[i].cb = cb})
Posted(cb) == Cardinality({i \in 1..Len(task_queue) : task_queue[i].cb = cb})

Registered == 1..(next_callback - 1)
RegisteredLate == Registered \ registered_early

\* OnModelInitializationFinished has run, with failure / with success.
ReportedFailure == init_reports # << >> /\ ~init_reports[1]
ReportedSuccess == init_reports # << >> /\ init_reports[1]

\* `feature` has a valid config whose event rules are all met now.
RulesOtherwiseMet(feature) ==
  /\ GetFeatureConfig(feature).valid
  /\ \A ec \in GetFeatureConfig(feature).event_configs : EventConfigMet(ec)
  /\ feature \notin currently_showing
  /\ feature \notin shown_features

C4_DeliveredExactlyOnce ==
  /\ [](\A cb \in registered_early :
          /\ ~initialization_finished_ => Ran(cb) + Posted(cb) = 0
          /\ ReportedSuccess =>
               /\ Ran(cb) + Posted(cb) = 1
               /\ \A i \in 1..Len(delivered) :
                    delivered[i].cb = cb => delivered[i].success
               /\ \A i \in 1..Len(task_queue) :
                    task_queue[i].cb = cb => task_queue[i].success)
  /\ [](ReportedSuccess /\ task_queue = << >> =>
          Cardinality({i \in 1..Len(delivered) :
                         delivered[i].cb \in registered_early})
            = Cardinality(registered_early))
  /\ \A cb \in Callbacks :
       (cb \in registered_early /\ ReportedSuccess) ~> (Ran(cb) = 1)

\* Two callbacks were registered before the finish, initialization succeeded
\* and both have run.
C4_Witness ==
  /\ Cardinality(registered_early) >= 2
  /\ ReportedSuccess
  /\ task_queue = << >>
  /\ \A cb \in registered_early : Ran(cb) = 1

(***************************************************************************)
(* C5. No callback runs inside AddOnInitializedCallback or inside          *)
(* OnModelInitializationFinished: those calls leave the record of runs     *)
(* unchanged, and every run is a step of the task runner that takes the    *)
(* task at the head of its queue, posted by an earlier step.               *)
(***************************************************************************)
C5_NeverInline ==
  [][ /\ (Called("AddOnInitializedCallback") \/ Called("on_loaded")) =>
           delivered' = delivered
      /\ delivered' # delivered =>
           /\ Called("RunTask")
           /\ task_queue # << >>
           /\ delivered' = Append(delivered, Head(task_queue))
    ]_vars

\* A callback registered after the finish has been posted and has not run.
C5_Witness ==
  /\ last.op = "AddOnInitializedCallback"
  /\ initialization_finished_
  /\ Posted(last.cb) = 1
  /\ Ran(last.cb) = 0

(***************************************************************************)
(* C6. Late registration: AddOnInitializedCallback after the finish does   *)
(* not touch the pending queue and posts one task for the callback, which  *)
(* carries the value initialization finished with; the callback is posted  *)
(* or has run exactly once, and it does run.                               *)
(***************************************************************************)
C6_LateRegistration ==
  /\ [][ (Called("AddOnInitializedCallback") /\ initialization_finished_) =>
           /\ on_initialized_callbacks_' = on_initialized_callbacks_
           /\ Len(task_queue') = Len(task_queue) + 1
           /\ task_queue'[Len(task_queue')] =
                [cb |-> last'.cb, success |-> init_reports[1]]
       ]_vars
  /\ [](\A cb \in RegisteredLate :
          /\ Ran(cb) + Posted(cb) = 1
          /\ \A i \in 1..Len(on_initialized_callbacks_) :
               on_initialized_callbacks_[i] # cb)
  /\ \A cb \in Callbacks : (cb \in RegisteredLate) ~> (Ran(cb) = 1)

\* A callback registered after a failed initialization has run, with false.
C6_Witness ==
  /\ ReportedFailure
  /\ \E i \in 1..Len(delivered) :
       /\ delivered[i].cb \in RegisteredLate
       /\ ~delivered[i].success

(***************************************************************************)
(* C7. FIFO: callbacks run in the order of their registration, and are     *)
(* posted in that order.                                                   *)
(***************************************************************************)
C7_FifoOrder ==
  LET runs == delivered \o task_queue
  IN \A i \in 1..Len(runs) : \A j \in 1..Len(runs) :
       i < j => runs[i].cb < runs[j].cb

\* Two callbacks that were queued together have both run.
C7_Witness ==
  /\ Len(delivered) >= 2
  /\ delivered[1].cb \in registered_early
  /\ delivered[2].cb \in registered_early

(***************************************************************************)
(* C8. Destruction while initializing: after the Tracker is destroyed no   *)
(* step runs OnModelInitializationFinished, writes a Tracker field or      *)
(* posts a task, and a callback that was queued then is never posted or    *)
(* run.                                                                    *)
(***************************************************************************)
C8_DestroyedIsNoOp ==
  /\ [][ ~alive =>
           /\ UNCHANGED << initialization_finished_,
                           on_initialized_callbacks_, init_reports >>
           /\ Len(task_queue') <= Len(task_queue)
       ]_vars
  /\ [](~alive /\ ~initialization_finished_ =>
          \A i \in 1..Len(on_initialized_callbacks_) :
            Ran(on_initialized_callbacks_[i])
              + Posted(on_initialized_callbacks_[i]) = 0)

\* The Model's completion arrived after the Tracker was destroyed with a
\* callback still queued.
C8_Witness ==
  /\ ~alive
  /\ model_state = "loaded"
  /\ last.op = "on_loaded"
  /\ ~initialization_finished_
  /\ on_initialized_callbacks_ # << >>

(***************************************************************************)
(* C9. Single trigger under the one-shot validator: in the demo-mode       *)
(* engine ShouldTriggerHelpUI(F) returns true at most once for every       *)
(* feature F, and increments F's trigger event at most once, whatever      *)
(* calls are made.                                                         *)
(***************************************************************************)
C9_SingleTrigger ==
  demo_mode => \A f \in Features : n_true[f] <= 1 /\ n_trigger_inc[f] <= 1

\* In demo mode F1 has triggered and was dismissed; asked for again, with
\* its rules otherwise met, it is refused.
C9_Witness ==
  /\ demo_mode
  /\ IsInitialized
  /\ n_true["F1"] = 1
  /\ n_trigger_inc["F1"] = 1
  /\ "F1" \notin currently_showing
  /\ last.op = "ShouldTriggerHelpUI"
  /\ last.arg = "F1"
  /\ ~last.ret

(***************************************************************************)
(* C10. F1 has a valid config and no other rule.  In the engine built with *)
(* the ordinary validator, once initialization has succeeded,              *)
(* ShouldTriggerHelpUI(F1) returns true exactly when no earlier true       *)
(* result is still undismissed: the first call returns true, every further *)
(* call before Dismissed(F1) returns false, and the call after             *)
(* Dismissed(F1) returns true again.                                       *)
(***************************************************************************)
C10_ShowDismissShow ==
  [][ (/\ Called("ShouldTriggerHelpUI")
       /\ last'.arg = "F1"
       /\ ~demo_mode
       /\ GetFeatureConfig("F1").valid
       /\ GetFeatureConfig("F1").event_configs = {}
       /\ IsInitialized) =>
        (last'.ret <=> "F1" \notin undismissed)
    ]_vars

\* F1 has triggered, was refused while showing, was dismissed and has
\* triggered again.
C10_Witness ==
  /\ ~demo_mode
  /\ n_true["F1"] = 2
  /\ "F1" \in undismissed
  /\ last.op = "ShouldTriggerHelpUI"
  /\ last.arg = "F1"
  /\ last.ret

\* F1 is showing and a further call, before any Dismissed(F1), was refused.
C10_WitnessRefused ==
  /\ ~demo_mode
  /\ n_true["F1"] = 1
  /\ "F1" \in undismissed
  /\ last.op = "ShouldTriggerHelpUI"
  /\ last.arg = "F1"
  /\ ~last.ret

(***************************************************************************)
(* C11. Dismissed(F) for a feature F that is not currently showing leaves  *)
(* the whole engine state unchanged, whether initialization is pending,    *)
(* has succeeded or has failed; and after any Dismissed(F) the feature is  *)
(* not showing and nothing but the showing set has changed, so a second    *)
(* Dismissed(F) in a row leaves the state the first one produced.          *)
(***************************************************************************)
EngineState ==
  << configuration, current_day, modelVars, validatorVars, trackerVars,
     task_queue >>

C11_DismissalIdempotent ==
  [][ Called("Dismissed") =>
        /\ (last'.arg \notin currently_showing => UNCHANGED EngineState)
        /\ last'.arg \notin currently_showing'
        /\ \A f \in Features \ {last'.arg} :
             (f \in currently_showing') = (f \in currently_showing)
        /\ UNCHANGED << configuration, current_day, modelVars, shown_features,
                        trackerVars, task_queue >> ]_vars

\* Dismissed was called for a feature that had been shown once and is not
\* showing any more.
C11_Witness ==
  /\ last.op = "Dismissed"
  /\ n_true[last.arg] = 1
  /\ last.arg \in shown_features
  /\ last.arg \notin currently_showing

\* Dismissed was called after initialization failed, and before it finished.
C11_WitnessFailed == last.op = "Dismissed" /\ ReportedFailure
C11_WitnessInitializing == last.op = "Dismissed" /\ init_reports = << >>

(***************************************************************************)
(* C12. The lifecycle state moves only from INITIALIZING to READY or to    *)
(* FAILED, in the step in which the Model runs on_loaded, with READY on    *)
(* success and FAILED on failure; READY and FAILED are never left, so      *)
(* initialization_finished_ never goes back to false.  The Model is        *)
(* initializing from construction on and, once loaded, never loads again.  *)
(***************************************************************************)
LifecycleState ==
  IF ~initialization_finished_ THEN "INITIALIZING"
  ELSE IF Model_IsReady THEN "READY" ELSE "FAILED"

C12_Lifecycle ==
  /\ LifecycleState = "INITIALIZING" /\ model_state = "loading"
  /\ [][ /\ (initialization_finished_ => initialization_finished_')
         /\ (LifecycleState # "INITIALIZING" =>
               LifecycleState' = LifecycleState)
         /\ (LifecycleState' # LifecycleState => Called("on_loaded"))
         /\ (Called("on_loaded") /\ alive =>
               LifecycleState' = IF last'.ret THEN "READY" ELSE "FAILED")
         /\ (model_state = "loaded" => model_state' = "loaded")
         /\ (model_state' # model_state => Called("on_loaded"))
         /\ (initialization_finished_ => ~Called("on_loaded")) ]_vars

\* Initialization failed and the Tracker has been used since.
C12_Witness ==
  /\ LifecycleState = "FAILED"
  /\ model_state = "loaded"
  /\ last.op = "ShouldTriggerHelpUI"

\* Initialization succeeded and the Tracker has been used since.
C12_WitnessReady ==
  /\ LifecycleState = "READY"
  /\ last.op = "AddOnInitializedCallback"

(***************************************************************************)
(* C13. IsInitialized() is true exactly when the Model ran on_loaded with  *)
(* success: it is false while the Tracker is INITIALIZING and after a      *)
(* reported failure, and true after a reported success.  When              *)
(* OnModelInitializationFinished(success) runs, success equals the Model's *)
(* readiness, so its DCHECK_EQ never fails.                                *)
(***************************************************************************)
C13_IsInitializedIsReadiness ==
  /\ [](IsInitialized <=> ReportedSuccess)
  /\ [](~initialization_finished_ => ~IsInitialized)
  /\ [](ReportedFailure => ~IsInitialized)
  /\ []("DCHECK_EQ(success, model_->IsReady())" \notin dchecks)
  /\ [][ Called("on_loaded") /\ alive =>
           /\ init_reports' = << last'.ret >>
           /\ IsInitialized' = last'.ret ]_vars

\* Initialization has reported success and IsInitialized() is true.
C13_Witness ==
  /\ ReportedSuccess
  /\ initialization_finished_
  /\ IsInitialized

\* Initialization has reported failure and IsInitialized() is false.
C13_WitnessFailed ==
  /\ ReportedFailure
  /\ initialization_finished_
  /\ ~IsInitialized

(***************************************************************************)
(* C14. A feature whose config is not valid, a feature that was never      *)
(* registered included, never triggers: every ShouldTriggerHelpUI for it   *)
(* returns false and changes neither the event store nor the validator,    *)
(* so it has never been shown and its trigger event was never incremented. *)
(***************************************************************************)
C14_InvalidNeverTriggers ==
  /\ [](\A f \in Features :
          ~GetFeatureConfig(f).valid =>
            /\ n_true[f] = 0
            /\ n_trigger_inc[f] = 0
            /\ f \notin currently_showing
            /\ f \notin shown_features)
  /\ [][ Called("ShouldTriggerHelpUI")
           /\ ~GetFeatureConfig(last'.arg).valid =>
             /\ ~last'.ret
             /\ UNCHANGED << modelVars, validatorVars >> ]_vars

\* With the Model ready, ShouldTriggerHelpUI was called for a feature that
\* was never registered.
C14_Witness ==
  /\ IsInitialized
  /\ last.op = "ShouldTriggerHelpUI"
  /\ last.arg \notin DOMAIN configuration
  /\ ~last.ret

\* With the Model ready, ShouldTriggerHelpUI was called for a feature that
\* is registered with a config that is not valid.
C14_WitnessRegistered ==
  /\ IsInitialized
  /\ last.op = "ShouldTriggerHelpUI"
  /\ last.arg \in DOMAIN configuration
  /\ ~configuration[last.arg].valid

C15_WitnessRefused ==
  /\ last.op = "ShouldTriggerHelpUI"
  /\ ~last.ret
  /\ IsInitialized
  /\ GetFeatureConfig(last.arg).valid

(***************************************************************************)
(* C16. With the Model ready, NotifyEvent(name) adds exactly one to the    *)
(* bucket of (name, current day), which it creates if absent, and changes  *)
(* no other bucket and nothing of the validator.  In every state the       *)
(* buckets of each event are in strictly increasing day order, hence at    *)
(* most one per day, none is for a day after the current one, and every    *)
(* count is at least one, hence non-negative.                              *)
(***************************************************************************)
BucketsSorted(buckets) ==
  /\ \A i, j \in 1..Len(buckets) : i < j => buckets[i].day < buckets[j].day
  /\ \A i \in 1..Len(buckets) :
       /\ buckets[i].count >= 1
       /\ buckets[i].day \in 0..current_day

C16_NotifyEventBucket ==
  /\ [](\A n \in EventNames : BucketsSorted(events[n]))
  /\ [][ Called("NotifyEvent") /\ IsInitialized =>
           /\ \A n \in EventNames, d \in Days :
                BucketCount(events'[n], d) =
                  BucketCount(events[n], d)
                  + (IF n = last'.arg /\ d = current_day THEN 1 ELSE 0)
           /\ Len(events'[last'.arg]) =
                Len(events[last'.arg])
                + (IF BucketCount(events[last'.arg], current_day) = 0
                   THEN 1 ELSE 0)
           /\ UNCHANGED << validatorVars, trackerVars, model_ready >> ]_vars

\* With the Model ready, NotifyEvent created the bucket of a later day next
\* to the one of an earlier day.
C16_Witness ==
  /\ last.op = "NotifyEvent"
  /\ IsInitialized
  /\ Len(events[last.arg]) = 2
  /\ BucketCount(events[last.arg], current_day) = 1

\* With the Model ready, NotifyEvent incremented an existing bucket.
C16_WitnessExisting ==
  /\ last.op = "NotifyEvent"
  /\ IsInitialized
  /\ BucketCount(events[last.arg], current_day) = 2

(***************************************************************************)
(* C17. Whenever ShouldTriggerHelpUI finds the conditions met, the trigger *)
(* event name of the feature's config is not empty, so its DCHECK_NE never *)
(* fails.  In demo mode every feature has a valid config whose trigger     *)
(* event is named after the feature with "_trigger" appended.              *)
(***************************************************************************)
C17_TriggerNameSet ==
  /\ []("DCHECK_NE(\"\", feature_config.trigger.name)" \notin dchecks)
  /\ [](demo_mode =>
          \A f \in Features :
            /\ GetFeatureConfig(f).valid
            /\ GetFeatureConfig(f).trigger.name = f \o "_trigger")
  /\ [][ Called("ShouldTriggerHelpUI") /\ last'.ret =>
           GetFeatureConfig(last'.arg).trigger.name # "" ]_vars

\* In demo mode ShouldTriggerHelpUI found the conditions met and counted
\* the trigger event named after the feature.
C17_Witness ==
  /\ demo_mode
  /\ last.op = "ShouldTriggerHelpUI"
  /\ last.ret
  /\ BucketCount(events[last.arg \o "_trigger"], current_day) = 1

\* Outside demo mode ShouldTriggerHelpUI found the conditions met.
C17_WitnessProduction ==
  /\ ~demo_mode
  /\ last.op = "ShouldTriggerHelpUI"
  /\ last.ret

(***************************************************************************)
(* C18. Every Create call that fails early is reported through             *)
(* cdm_created_cb exactly once, by a posted task and never inside Create,  *)
(* with a null CDM and the error message of its failure, and is not passed *)
(* on to CdmAdapter::Create: "Invalid origin." when the origin is not      *)
(* valid, in which case the allocator is not created either;               *)
(* "Unsupported key system." when the origin is valid and no CDM path was  *)
(* resolved; "CDM allocator creation failed." when origin and path are     *)
(* fine and the allocator callback returned null.                          *)
(***************************************************************************)
\* The tasks of call `call` that are waiting, and its reports so far.
CdmPending(call) ==
  {i \in 1..Len(cdm_task_queue) : cdm_task_queue[i].call = call}
CdmReports(call) ==
  {i \in 1..Len(cdm_created) : cdm_created[i].call = call}

\* The calls that reached the allocator, and those passed on.
AllocatorRan == {allocator_runs[i] : i \in 1..Len(allocator_runs)}
PassedOn == {adapter_creates[i] : i \in 1..Len(adapter_creates)}

\* The early failure the inputs `in` of a call ask for; "" when none.
CdmExpectedErrorOf(in) ==
  LET path_resolved == widevine_cdm_available
                       /\ in.key_system = "com.widevine.alpha"
  IN IF ~in.origin_valid THEN "Invalid origin."
     ELSE IF ~path_resolved THEN "Unsupported key system."
     ELSE IF in.allocator = "nullptr" THEN "CDM allocator creation failed."
     ELSE ""

CdmExpectedError(call) == CdmExpectedErrorOf(cdm_calls[call])

C18_EarlyFailuresReported ==
  /\ [](\A call \in 1..Len(cdm_calls) :
          CdmExpectedError(call) # "" =>
            /\ Cardinality(CdmPending(call)) + Cardinality(CdmReports(call))
                 = 1
            /\ \A i \in CdmPending(call) :
                 /\ cdm_task_queue[i].cdm = "nullptr"
                 /\ cdm_task_queue[i].error_message = CdmExpectedError(call)
            /\ \A i \in CdmReports(call) :
                 /\ cdm_created[i].cdm = "nullptr"
                 /\ cdm_created[i].error_message = CdmExpectedError(call)
            /\ call \notin PassedOn
            /\ (~cdm_calls[call].origin_valid => call \notin AllocatorRan))
  /\ [][ cdm_calls' # cdm_calls =>
           /\ cdm_created' = cdm_created
           /\ CdmExpectedErrorOf(cdm_calls'[Len(cdm_calls')]) # "" =>
                /\ Len(cdm_task_queue') = Len(cdm_task_queue) + 1
                /\ cdm_task_queue'[Len(cdm_task_queue')].call = Len(cdm_calls')
                /\ UNCHANGED adapter_creates ]_vars

\* Each of the three early failures has been made and reported.
C18_Witness ==
  \A error_message \in {"Invalid origin.", "Unsupported key system.",
                         "CDM allocator creation failed."} :
    \E i \in 1..Len(cdm_created) :
      /\ cdm_created[i].error_message = error_message
      /\ cdm_created[i].cdm = "nullptr"

\* An invalid origin was reported for the Widevine key system in a build
\* that has Widevine.
C18_WitnessOriginFirst ==
  /\ widevine_cdm_available
  /\ \E i \in 1..Len(cdm_created) :
       /\ cdm_created[i].error_message = "Invalid origin."
       /\ cdm_calls[cdm_created[i].call].key_system = "com.widevine.alpha"

(***************************************************************************)
(* C19. The handler keeps its observer registrations balanced.  For the    *)
(* type debug info observer every HandleRegisterForPerTypeCounters made    *)
(* while registered removes once and adds once, so adds minus removes is   *)
(* never above one; the same bound holds for the service observer.  While  *)
(* JavaScript is disallowed after DisallowJavascript, and after the        *)
(* handler is destroyed, adds equal removes for both kinds; destroying the *)
(* handler after DisallowJavascript changes no count.                      *)
(***************************************************************************)
ObserverBalance ==
  sync_counts.add_observer_count_ - sync_counts.remove_observer_count_
TypeObserverBalance ==
  sync_counts.add_type_debug_info_observer_count_
  - sync_counts.remove_type_debug_info_observer_count_

C19_WitnessRepeated ==
  /\ handler_alive
  /\ sync_messages = 3
  /\ sync_counts.add_type_debug_info_observer_count_ = 3
  /\ sync_counts.remove_type_debug_info_observer_count_ = 2

\* AddRemoveObserversDisallowJavascript: both registrations, JavaScript
\* disallowed, handler destroyed; one add and one remove of each kind.
C19_WitnessDisallowed ==
  /\ ~handler_alive
  /\ sync_messages = 2
  /\ sync_counts = [add_observer_count_ |-> 1,
                    remove_observer_count_ |-> 1,
                    add_type_debug_info_observer_count_ |-> 1,
                    remove_type_debug_info_observer_count_ |-> 1]

(***************************************************************************)
(* C20. Whenever initialization_finished_ is true the queue                *)
(* on_initialized_callbacks_ is empty: the queue is cleared in the step    *)
(* that sets the flag, and an AddOnInitializedCallback made afterwards     *)
(* posts its callback instead of appending it.                             *)
(***************************************************************************)
C20_FinishedQueueEmpty ==
  /\ [](initialization_finished_ => on_initialized_callbacks_ = << >>)
  /\ [][ initialization_finished_ /\ Called("AddOnInitializedCallback") =>
           /\ UNCHANGED on_initialized_callbacks_
           /\ Len(task_queue') = Len(task_queue) + 1 ]_vars

\* Initialization finished with callbacks queued, and a callback was
\* registered afterwards.
C20_Witness ==
  /\ initialization_finished_
  /\ registered_early # {}
  /\ RegisteredLate # {}
  /\ last.op = "AddOnInitializedCallback"
  /\ on_initialized_callbacks_ = << >>

(***************************************************************************)
(* C21. All initialization callbacks of one Tracker receive the same       *)
(* success value: every task posted or run, whether its callback was       *)
(* queued before initialization finished or registered afterwards, carries *)
(* the value the Model reported, which is also the Model's readiness,      *)
(* whatever other calls were made in between.                              *)
(***************************************************************************)
C21_SameSuccessValue ==
  LET runs == delivered \o task_queue
  IN /\ \A i \in 1..Len(runs) : \A j \in 1..Len(runs) :
          runs[i].success = runs[j].success
     /\ \A i \in 1..Len(runs) :
          /\ init_reports # << >>
          /\ runs[i].success = init_reports[1]
          /\ runs[i].success = Model_IsReady

\* After a failed initialization a callback queued before it and a callback
\* registered after it have both run, and the Tracker was used in between.
C21_Witness ==
  /\ ReportedFailure
  /\ early_notified # {}
  /\ \E i \in 1..Len(delivered) : \E j \in 1..Len(delivered) :
       /\ delivered[i].cb \in registered_early
       /\ delivered[j].cb \in RegisteredLate
       /\ delivered[i].success = delivered[j].success

\* The same after a successful initialization.
C21_WitnessSuccess ==
  /\ ReportedSuccess
  /\ \E i \in 1..Len(delivered) : \E j \in 1..Len(delivered) :
       /\ delivered[i].cb \in registered_early
       /\ delivered[j].cb \in RegisteredLate
       /\ delivered[i].success /\ delivered[j].success

(***************************************************************************)
(* C22. A callback registered after OnModelInitializationFinished posted   *)
(* the queued callbacks, while their tasks are still waiting, is posted    *)
(* behind all of them on the same task queue and runs after all of them:   *)
(* no callback registered after the finish has run while a callback queued *)
(* before the finish is still waiting.                                     *)
(***************************************************************************)
C22_LateAfterQueued ==
  /\ [][ Called("AddOnInitializedCallback") /\ initialization_finished_ =>
           /\ Len(task_queue') = Len(task_queue) + 1
           /\ \A i \in 1..Len(task_queue) : task_queue'[i] = task_queue[i]
           /\ task_queue'[Len(task_queue')].cb = last'.cb ]_vars
  /\ [](\A i \in 1..Len(task_queue) : \A j \in 1..Len(task_queue) :
          /\ task_queue[i].cb \in registered_early
          /\ task_queue[j].cb \in RegisteredLate
          => i < j)
  /\ [](\A late \in RegisteredLate : \A early \in registered_early :
          Ran(late) > 0 => Posted(early) = 0)
  /\ [][ Called("RunTask") /\ last'.cb \in RegisteredLate =>
           \A early \in registered_early : Posted(early) = 0 ]_vars

\* A callback has just been registered after the finish while the task of
\* a callback queued before the finish is still waiting.
C22_Witness ==
  /\ last.op = "AddOnInitializedCallback"
  /\ last.cb \in RegisteredLate
  /\ Posted(last.cb) = 1
  /\ \E early \in registered_early : Posted(early) = 1

\* Both have run, the one queued before the finish first.
C22_WitnessDelivered ==
  /\ Len(delivered) = 2
  /\ delivered[1].cb \in registered_early
  /\ delivered[2].cb \in RegisteredLate

(***************************************************************************)
(* C23. If the Model runs on_loaded a second time, so that                 *)
(* OnModelInitializationFinished runs again, no callback is delivered a    *)
(* second time: the queue is empty when the second run starts, the second  *)
(* run posts and runs nothing, and every callback is posted or has run at  *)
(* most once in every state.                                               *)
(***************************************************************************)
C23_DuplicateCompletion ==
  /\ [](\A cb \in Callbacks : Ran(cb) + Posted(cb) <= 1)
  /\ [][ Called("on_loaded") /\ initialization_finished_ =>
           /\ on_initialized_callbacks_ = << >>
           /\ UNCHANGED << task_queue, delivered, on_initialized_callbacks_,
                           initialization_finished_ >> ]_vars

\* OnModelInitializationFinished has run twice; the callbacks queued before
\* the first run and one registered between the runs have each run once.
C23_Witness ==
  /\ Len(init_reports) = 2
  /\ registered_early # {}
  /\ RegisteredLate # {}
  /\ \A cb \in Registered : Ran(cb) = 1

\* The second run reported another value than the first.
C23_WitnessDiffering ==
  /\ Len(init_reports) = 2
  /\ init_reports[1] # init_reports[2]
  /\ registered_early # {}

====
